---- MODULE Spec2Model ----
(***************************************************************************)
(* scripts/gen_frames.py: the rotating wireframe cube rendered as 36 text  *)
(* frames of 17 rows x 42 columns, one file per frame.                     *)
(*                                                                         *)
(* Real numbers are fixed-point integers in units of 1/UNIT.  The sample   *)
(* interpolation of _draw_line and every call of Python's round() are      *)
(* computed exactly on rationals (round half to even).  Only the products  *)
(* with sines and cosines in _rot and with ASPECT in _project are rounded  *)
(* to the fixed-point resolution.                                          *)
(***************************************************************************)
EXTENDS Integers, Sequences, FiniteSets

ROWS == 17
COLS == 42
NUM_FRAMES == 36
\* SCALE = 4.2 and ASPECT = 2.1 in units of 1/UNIT
UNIT == 1000
SCALE == 4200
ASPECT == 2100

\* Half-width, in half cells, of the two windows of endpoint coordinates the
\* rasterizer is exercised on (RasterSpec).
Reach == 3

---------------------------------------------------------------------------
(* Python numbers *)

\* Python's round() of the rational n/d, d > 0: nearest integer, ties to even.
round(n, d) ==
  LET q == n \div d
      m == n % d
  IN  IF 2 * m < d THEN q
      ELSE IF 2 * m > d THEN q + 1
      ELSE IF q % 2 = 0 THEN q ELSE q + 1

\* A product of two fixed-point numbers, as a fixed-point number.
Mul(a, b) == round(a * b, UNIT)

abs(x) == IF x < 0 THEN -x ELSE x

max(a, b) == IF a >= b THEN a ELSE b

---------------------------------------------------------------------------
(* 3D math *)

\* a = [sx, cx, sy, cy, sz, cz]: the sines and cosines of ax, ay, az.
_rot(x, y, z, a) ==
  LET y1 == Mul(y, a.cx) - Mul(z, a.sx)
      z1 == Mul(y, a.sx) + Mul(z, a.cx)
      x2 == Mul(x, a.cy) + Mul(z1, a.sy)
      z2 == Mul(z1, a.cy) - Mul(x, a.sy)
      x3 == Mul(x2, a.cz) - Mul(y1, a.sz)
      y3 == Mul(x2, a.sz) + Mul(y1, a.cz)
  IN  <<x3, y3, z2>>

\* (column, row)
_project(x, y, z) ==
  <<(COLS * UNIT) \div 2 + Mul(x, ASPECT), (ROWS * UNIT) \div 2 + y>>

\* sin and cos of the angles of _render_frame, for frame = 0 .. 35
SIN_AX == 565
COS_AX == 825
SIN_AY ==
  <<707, 819, 906, 966, 996, 996, 966, 906, 819, 707, 574, 423, 259, 87,
    -87, -259, -423, -574, -707, -819, -906, -966, -996, -996, -966, -906,
    -819, -707, -574, -423, -259, -87, 87, 259, 423, 574 >>
COS_AY ==
  <<707, 574, 423, 259, 87, -87, -259, -423, -574, -707, -819, -906, -966,
    -996, -996, -966, -906, -819, -707, -574, -423, -259, -87, 87, 259,
    423, 574, 707, 819, 906, 966, 996, 996, 966, 906, 819 >>
SIN_AZ ==
  <<296, 353, 410, 465, 518, 569, 618, 665, 709, 751, 790, 826, 859, 889,
    915, 938, 957, 973, 985, 994, 999, 1000, 997, 991, 981, 967, 950, 929,
    905, 877, 846, 812, 775, 735, 692, 647 >>
COS_AZ ==
  <<955, 936, 912, 885, 855, 822, 786, 747, 705, 660, 613, 564, 512, 459,
    404, 347, 289, 230, 170, 110, 49, -12, -73, -134, -194, -254, -312,
    -370, -426, -480, -533, -583, -632, -678, -722, -763 >>

Angles(fr) ==
  [sx |-> SIN_AX, cx |-> COS_AX,
   sy |-> SIN_AY[fr + 1], cy |-> COS_AY[fr + 1],
   sz |-> SIN_AZ[fr + 1], cz |-> COS_AZ[fr + 1]]

---------------------------------------------------------------------------
(* Cube definition.  Vertex k of the source is element k + 1 of a list. *)

_VERTS ==
  << <<-1, -1, -1>>, <<1, -1, -1>>, <<1, 1, -1>>, <<-1, 1, -1>>,
     <<-1, -1, 1>>, <<1, -1, 1>>, <<1, 1, 1>>, <<-1, 1, 1>> >>

_EDGES ==
  << <<0, 1>>, <<1, 2>>, <<2, 3>>, <<3, 0>>,
     <<4, 5>>, <<5, 6>>, <<6, 7>>, <<7, 4>>,
     <<0, 4>>, <<1, 5>>, <<2, 6>>, <<3, 7>> >>

_FACES ==
  << <<0, 3, 2, 1>>,
     <<4, 5, 6, 7>>,
     <<0, 1, 5, 4>>,
     <<2, 3, 7, 6>>,
     <<0, 4, 7, 3>>,
     <<1, 2, 6, 5>> >>

\* (the left face's edge (0, 3) mistyped)
_FACE_EDGES_mistyped ==
  << {<<0, 1>>, <<1, 2>>, <<2, 3>>, <<3, 0>>},
     {<<4, 5>>, <<5, 6>>, <<6, 7>>, <<7, 4>>},
     {<<0, 1>>, <<1, 5>>, <<5, 4>>, <<0, 4>>},
     {<<2, 3>>, <<3, 7>>, <<7, 6>>, <<2, 6>>},
     {<<0, 7>>, <<3, 7>>, <<7, 4>>, <<0, 4>>},
     {<<1, 2>>, <<2, 6>>, <<6, 5>>, <<1, 5>>} >>

_FACE_EDGES ==
  << {<<0, 1>>, <<1, 2>>, <<2, 3>>, <<3, 0>>},
     {<<4, 5>>, <<5, 6>>, <<6, 7>>, <<7, 4>>},
     {<<0, 1>>, <<1, 5>>, <<5, 4>>, <<0, 4>>},
     {<<2, 3>>, <<3, 7>>, <<7, 6>>, <<2, 6>>},
     {<<0, 3>>, <<3, 7>>, <<7, 4>>, <<0, 4>>},
     {<<1, 2>>, <<2, 6>>, <<6, 5>>, <<1, 5>>} >>

\* Z component of the cross product of the face's first two edge vectors.
NormalZ(v3, face) ==
  LET a == v3[face[1] + 1]
      b == v3[face[2] + 1]
      c == v3[face[3] + 1]
      e1 == <<b[1] - a[1], b[2] - a[2], b[3] - a[3]>>
      e2 == <<c[1] - a[1], c[2] - a[2], c[3] - a[3]>>
  IN  e1[1] * e2[2] - e1[2] * e2[1]

\* (an edge-on face counted as visible)
_face_visible_or_edge_on(v3, face) == NormalZ(v3, face) >= 0

_face_visible(v3, face) == NormalZ(v3, face) > 0

\* verts_3d and verts_2d built by the transform loop
Transform3d(a) ==
  [k \in 1..Len(_VERTS) |->
     _rot(_VERTS[k][1] * SCALE, _VERTS[k][2] * SCALE, _VERTS[k][3] * SCALE, a)]

Transform2d(v3) ==
  [k \in 1..Len(v3) |-> _project(v3[k][1], v3[k][2], v3[k][3])]

\* visible_edges built by the culling loop
VisibleEdges(v3) ==
  UNION {_FACE_EDGES[fi] : fi \in {k \in 1..Len(_FACES) : _face_visible(v3, _FACES[k])}}

\* (the reversed pair not looked up)
EdgeSelectedAsListed(e, ve) == e \in ve

\* The edge filter of the drawing loop: the edge is not skipped.
EdgeSelected(e, ve) == ~(e \notin ve /\ <<e[2], e[1]>> \notin ve)

---------------------------------------------------------------------------
(* Canvas: a list of ROWS lists of COLS one-character strings. *)

\* (rows and columns exchanged)
BlankCanvasTransposed == [r \in 1..COLS |-> [c \in 1..ROWS |-> " "]]

BlankCanvas == [r \in 1..ROWS |-> [c \in 1..COLS |-> " "]]

\* (the lower bounds forgotten)
InGridUpperOnly(r, c) == r < ROWS /\ c < COLS

\* The bounds test guarding every canvas write.
InGrid(r, c) == 0 <= r /\ r < ROWS /\ 0 <= c /\ c < COLS

\* cv[r][c] = ch on Python lists: an index outside -len .. len-1 raises
\* IndexError, a negative index in that range counts from the end.
Raises(cv, r, c) ==
  \/ r < -Len(cv) \/ r >= Len(cv)
  \/ c < -Len(cv[1]) \/ c >= Len(cv[1])

PyIndex(k, n) == IF k < 0 THEN k + n + 1 ELSE k + 1

SetItem(cv, r, c, ch) ==
  LET ri == PyIndex(r, Len(cv))
  IN  [cv EXCEPT ![ri] = [@ EXCEPT ![PyIndex(c, Len(@))] = ch]]

---------------------------------------------------------------------------
(* Line drawing.  ln = [c0, r0, c1, r1]: the endpoints, fixed-point. *)

EdgeLine(v2, e) ==
  [c0 |-> v2[e[1] + 1][1], r0 |-> v2[e[1] + 1][2],
   c1 |-> v2[e[2] + 1][1], r1 |-> v2[e[2] + 1][2]]

ic0(ln) == round(ln.c0, UNIT)
ir0(ln) == round(ln.r0, UNIT)
ic1(ln) == round(ln.c1, UNIT)
ir1(ln) == round(ln.r1, UNIT)

Steps(ln) == max(abs(ic1(ln) - ic0(ln)), abs(ir1(ln) - ir0(ln)))

\* round(c0 + t * (c1 - c0)) and round(r0 + t * (r1 - r0)) for t = n / steps
SampleC(ln, n) == round(ln.c0 * Steps(ln) + n * (ln.c1 - ln.c0), UNIT * Steps(ln))
SampleR(ln, n) == round(ln.r0 * Steps(ln) + n * (ln.r1 - ln.r0), UNIT * Steps(ln))

\* (the row difference taken backwards)
StepDirRowReversed(ln, n, pvc, pvr) ==
  IF n = 0
  THEN <<ic1(ln) - ic0(ln), ir1(ln) - ir0(ln)>>
  ELSE <<SampleC(ln, n) - pvc, pvr - SampleR(ln, n)>>

\* <<sc, sr>>: the local direction at sample n
StepDir(ln, n, pvc, pvr) ==
  IF n = 0
  THEN <<ic1(ln) - ic0(ln), ir1(ln) - ir0(ln)>>
  ELSE <<SampleC(ln, n) - pvc, SampleR(ln, n) - pvr>>

Glyph(sc, sr) ==
  IF sr = 0 THEN "-"
  ELSE IF sc = 0 THEN "|"
  ELSE IF (sc > 0 /\ sr > 0) \/ (sc < 0 /\ sr < 0) THEN "\\"
  ELSE "/"

\* A guarded canvas write: the cell is written when the bounds test passes.
Plot(cv, r, c, ch) ==
  IF InGrid(r, c) /\ ~Raises(cv, r, c) THEN SetItem(cv, r, c, ch) ELSE cv

\* steps == 0: a single "+"
PlotPoint(cv, ln) == Plot(cv, ir0(ln), ic0(ln), "+")

\* One iteration of the sampling loop
PlotSample(cv, ln, n, pvc, pvr) ==
  LET d == StepDir(ln, n, pvc, pvr)
  IN  Plot(cv, SampleR(ln, n), SampleC(ln, n), Glyph(d[1], d[2]))

RECURSIVE LineLoop(_, _, _, _, _)
LineLoop(cv, ln, n, pvc, pvr) ==
  IF n > Steps(ln) THEN cv
  ELSE LET nx == PlotSample(cv, ln, n, pvc, pvr)
       IN  IF Len(nx) = 0 THEN nx
           ELSE LineLoop(nx, ln, n + 1, SampleC(ln, n), SampleR(ln, n))

_draw_line(cv, ln) ==
  IF Steps(ln) = 0 THEN PlotPoint(cv, ln)
  ELSE LineLoop(cv, ln, 0, ic0(ln), ir0(ln))

---------------------------------------------------------------------------
(* _render_frame as a function of the frame index.  The loops are folds; *)
(* the test Len(nx) = 0, never true of a canvas, only makes each step's   *)
(* canvas evaluated before the next step is taken.                        *)

RECURSIVE DrawEdges(_, _, _, _)
DrawEdges(cv, v2, ve, k) ==
  IF k > Len(_EDGES) THEN cv
  ELSE LET nx == IF EdgeSelected(_EDGES[k], ve)
                 THEN _draw_line(cv, EdgeLine(v2, _EDGES[k])) ELSE cv
       IN  IF Len(nx) = 0 THEN nx ELSE DrawEdges(nx, v2, ve, k + 1)

\* One iteration of the vertex loop
MarkVertex(cv, p) == Plot(cv, round(p[2], UNIT), round(p[1], UNIT), "o")

RECURSIVE DrawVertices(_, _, _)
DrawVertices(cv, v2, k) ==
  IF k > Len(v2) THEN cv
  ELSE LET nx == MarkVertex(cv, v2[k])
       IN  IF Len(nx) = 0 THEN nx ELSE DrawVertices(nx, v2, k + 1)

\* "\n".join("".join(row) for row in canvas), as a list of characters
RECURSIVE JoinFrom(_, _)
JoinFrom(cv, k) ==
  IF k > Len(cv) THEN <<>>
  ELSE (IF k > 1 THEN <<"\n">> ELSE <<>>) \o cv[k] \o JoinFrom(cv, k + 1)

Serialize(cv) == JoinFrom(cv, 1)

_render_frame(fr) ==
  LET v3 == Transform3d(Angles(fr))
      v2 == Transform2d(v3)
      cv == DrawVertices(DrawEdges(BlankCanvas, v2, VisibleEdges(v3), 1), v2, 1)
  IN  Serialize(cv)

---------------------------------------------------------------------------
(* The program as a state machine *)

VARIABLES
  pc,             \* where control is
  f,              \* main's loop variable
  dir_exists,     \* the output directory exists
  files,          \* frame_N.txt for N = 1 .. NUM_FRAMES
  oplog,          \* the file-system operations and prints, in order
  frame,          \* _render_frame's argument
  ang,            \* sines and cosines of ax, ay, az
  verts_3d, verts_2d, visible_edges, canvas, text,
  ei,             \* position in _EDGES of the drawing loop
  drawn,          \* the positions in _EDGES _draw_line was called for
  i, prev_c, prev_r,   \* _draw_line's sampling loop
  vi              \* position in verts_2d of the vertex loop

vars ==
  <<pc, f, dir_exists, files, oplog, frame, ang, verts_3d, verts_2d,
    visible_edges, canvas, text, ei, drawn, i, prev_c, prev_r, vi>>

mainVars == <<f, dir_exists, files, oplog>>
lineVars == <<i, prev_c, prev_r>>
locals ==
  <<verts_3d, verts_2d, visible_edges, canvas, ei, drawn, i, prev_c, prev_r, vi>>

NoFile == [exists |-> FALSE, data |-> <<>>]
StaleFile == [exists |-> TRUE, data |-> <<"o", "l", "d">>]
File(t) == [exists |-> TRUE, data |-> t]

Op(name, n) == [op |-> name, n |-> n]

NoAngles == [sx |-> 0, cx |-> 0, sy |-> 0, cy |-> 0, sz |-> 0, cz |-> 0]

\* No local of _render_frame is bound.
NoLocals ==
  /\ verts_3d = <<>> /\ verts_2d = <<>> /\ visible_edges = {}
  /\ canvas = <<>> /\ ei = 0 /\ drawn = {} /\ i = 0 /\ prev_c = 0 /\ prev_r = 0 /\ vi = 0

\* The script starts either in a fresh checkout or where an earlier run has
\* left its directory and files.
Init ==
  /\ pc = "mkdir"
  /\ f = 0
  /\ \/ dir_exists = FALSE /\ files = [n \in 1..NUM_FRAMES |-> NoFile]
     \/ dir_exists = TRUE /\ files = [n \in 1..NUM_FRAMES |-> StaleFile]
  /\ oplog = <<>>
  /\ frame = 0 /\ ang = NoAngles /\ text = <<>>
  /\ NoLocals

(* main *)

\* (the exception caught and the loop resumed)
Swallow == "loop"

\* An exception nothing catches ends the run.
Propagate == "raised"

\* root.mkdir(parents=True, exist_ok=True)
Mkdir ==
  /\ pc = "mkdir"
  /\ dir_exists' = TRUE
  /\ oplog' = Append(oplog, Op("mkdir", 0))
  /\ f' = 1
  /\ pc' = "loop"
  /\ UNCHANGED <<files, frame, ang, text, locals>>

MkdirFails ==
  /\ pc = "mkdir"
  /\ ~dir_exists
  /\ oplog' = Append(oplog, Op("mkdir failed", 0))
  /\ pc' = Propagate
  /\ UNCHANGED <<f, dir_exists, files, frame, ang, text, locals>>

\* (the file number passed as the frame index)
FrameArgOneBased(n) == n

\* The frame index main passes for loop value n
FrameArg(n) == n - 1

\* for f in range(1, NUM_FRAMES + 1): text = _render_frame(f - 1)
\* The call is one step of main; its own steps are FrameSpec's.
CallRender ==
  /\ pc = "loop"
  /\ f <= NUM_FRAMES
  /\ text' = _render_frame(FrameArg(f))
  /\ pc' = "write"
  /\ UNCHANGED <<mainVars, frame, ang, locals>>

\* The number in the name of the file written for loop value n
FileNumber(n) == n

\* (root / f"frame_{f}.txt").write_text(text)
WriteFile ==
  /\ pc = "write"
  /\ files' = [files EXCEPT ![FileNumber(f)] = File(text)]
  /\ oplog' = Append(oplog, Op("write", FileNumber(f)))
  /\ f' = f + 1
  /\ pc' = "loop"
  /\ UNCHANGED <<dir_exists, frame, ang, text, locals>>

\* write_text fails: the file is left as it was or truncated.
WriteFails ==
  /\ pc = "write"
  /\ \/ files' = files
     \/ files' = [files EXCEPT ![FileNumber(f)] = File(<<>>)]
  /\ oplog' = Append(oplog, Op("write failed", FileNumber(f)))
  /\ pc' = Propagate
  /\ UNCHANGED <<f, dir_exists, frame, ang, text, locals>>

\* The loop is over: print the summary and return.
PrintSummary ==
  /\ pc = "loop"
  /\ f > NUM_FRAMES
  /\ oplog' = Append(oplog, Op("print", NUM_FRAMES))
  /\ pc' = "done"
  /\ UNCHANGED <<f, dir_exists, files, frame, ang, text, locals>>

Next ==
  \/ Mkdir \/ MkdirFails \/ CallRender \/ WriteFile \/ WriteFails
  \/ PrintSummary

Spec == Init /\ [][Next]_vars

---------------------------------------------------------------------------
(* _render_frame, step by step *)

\* t, ax, ay, az
ComputeAngles ==
  /\ pc = "call"
  /\ ang' = Angles(frame)
  /\ pc' = "transform"
  /\ UNCHANGED <<mainVars, frame, text, locals>>

\* Transform vertices
Transform ==
  /\ pc = "transform"
  /\ verts_3d' = Transform3d(ang)
  /\ verts_2d' = Transform2d(Transform3d(ang))
  /\ pc' = "cull"
  /\ UNCHANGED <<mainVars, frame, ang, visible_edges, canvas, text, ei,
                 drawn, lineVars, vi>>

\* (vertices marked before the edges are drawn)
LoopOrderVerticesFirst == <<"vertices", "edges">>

\* The order of the two drawing loops after the canvas is made
LoopOrder == <<"edges", "vertices">>

\* The loop that follows loop p, or the return
AfterLoop(p) == IF p = LoopOrder[1] THEN LoopOrder[2] ELSE "join"

\* Control moves to the head of loop p.
Enter(p) ==
  /\ pc' = p
  /\ ei' = IF p = "edges" THEN 1 ELSE ei
  /\ vi' = IF p = "vertices" THEN 1 ELSE vi

\* Determine visible edges via back-face culling; make the canvas
Cull ==
  /\ pc = "cull"
  /\ visible_edges' = VisibleEdges(verts_3d)
  /\ canvas' = BlankCanvas
  /\ drawn' = {}
  /\ Enter(LoopOrder[1])
  /\ UNCHANGED <<mainVars, frame, ang, verts_3d, verts_2d, text, lineVars>>

\* The drawing loop is done with edge ei.
NextEdge ==
  IF ei < Len(_EDGES)
  THEN pc' = "edges" /\ ei' = ei + 1 /\ vi' = vi
  ELSE Enter(AfterLoop("edges"))

\* continue
EdgeSkip ==
  /\ pc = "edges"
  /\ ~EdgeSelected(_EDGES[ei], visible_edges)
  /\ NextEdge
  /\ UNCHANGED <<mainVars, frame, ang, verts_3d, verts_2d, visible_edges,
                 canvas, text, drawn, lineVars>>

\* _draw_line is called: up to the sampling loop, or the "+" and the return
EdgeDraw ==
  /\ pc = "edges"
  /\ EdgeSelected(_EDGES[ei], visible_edges)
  /\ drawn' = drawn \cup {ei}
  /\ LET ln == EdgeLine(verts_2d, _EDGES[ei])
     IN  IF Steps(ln) = 0
         THEN IF InGrid(ir0(ln), ic0(ln)) /\ Raises(canvas, ir0(ln), ic0(ln))
              THEN pc' = Propagate /\ UNCHANGED <<canvas, ei, vi, lineVars>>
              ELSE /\ canvas' = PlotPoint(canvas, ln)
                   /\ NextEdge
                   /\ UNCHANGED lineVars
         ELSE /\ pc' = "line"
              /\ i' = 0
              /\ prev_c' = ic0(ln)
              /\ prev_r' = ir0(ln)
              /\ UNCHANGED <<canvas, ei, vi>>
  /\ UNCHANGED <<mainVars, frame, ang, verts_3d, verts_2d, visible_edges, text>>

\* One iteration of for i in range(steps + 1); after the last, the return
LineSample ==
  /\ pc = "line"
  /\ LET ln == EdgeLine(verts_2d, _EDGES[ei])
         c == SampleC(ln, i)
         r == SampleR(ln, i)
     IN  IF InGrid(r, c) /\ Raises(canvas, r, c)
         THEN pc' = Propagate /\ UNCHANGED <<canvas, ei, vi, lineVars>>
         ELSE /\ canvas' = PlotSample(canvas, ln, i, prev_c, prev_r)
              /\ prev_c' = c
              /\ prev_r' = r
              /\ IF i < Steps(ln)
                 THEN i' = i + 1 /\ UNCHANGED <<pc, ei, vi>>
                 ELSE i' = i /\ NextEdge
  /\ UNCHANGED <<mainVars, frame, ang, verts_3d, verts_2d, visible_edges, text,
                 drawn>>

\* One iteration of for sc, sr in verts_2d
VertexMark ==
  /\ pc = "vertices"
  /\ LET c == round(verts_2d[vi][1], UNIT)
         r == round(verts_2d[vi][2], UNIT)
     IN  IF InGrid(r, c) /\ Raises(canvas, r, c)
         THEN pc' = Propagate /\ UNCHANGED <<canvas, ei, vi>>
         ELSE /\ canvas' = MarkVertex(canvas, verts_2d[vi])
              /\ IF vi < Len(verts_2d)
                 THEN vi' = vi + 1 /\ UNCHANGED <<pc, ei>>
                 ELSE Enter(AfterLoop("vertices"))
  /\ UNCHANGED <<mainVars, frame, ang, verts_3d, verts_2d, visible_edges, text,
                 drawn, lineVars>>

\* return "\n".join(...): the locals go with the call
RenderReturn ==
  /\ pc = "join"
  /\ text' = Serialize(canvas)
  /\ verts_3d' = <<>> /\ verts_2d' = <<>> /\ visible_edges' = {}
  /\ canvas' = <<>> /\ ei' = 0 /\ drawn' = {} /\ i' = 0 /\ prev_c' = 0 /\ prev_r' = 0 /\ vi' = 0
  /\ pc' = "returned"
  /\ UNCHANGED <<mainVars, frame, ang>>

Render ==
  \/ Transform \/ Cull \/ EdgeSkip \/ EdgeDraw \/ LineSample \/ VertexMark
  \/ RenderReturn

\* The state of main while _render_frame runs
InCall ==
  /\ f = 1 /\ dir_exists = TRUE
  /\ files = [n \in 1..NUM_FRAMES |-> NoFile]
  /\ oplog = <<Op("mkdir", 0)>>
  /\ text = <<>>

\* _render_frame(frame) for any frame index of main's loop
FrameInit ==
  /\ pc = "call"
  /\ InCall
  /\ frame \in 0..(NUM_FRAMES - 1)
  /\ ang = NoAngles
  /\ NoLocals

FrameNext == ComputeAngles \/ Render

FrameSpec == FrameInit /\ [][FrameNext]_vars

---------------------------------------------------------------------------
(* _render_frame on angles other than the schedule's: every combination of *)
(* the angles whose sine and cosine are exact in fixed point (multiples of *)
(* a right angle, and the 3-4-5 triangle's).  ax = ay = az = 0 is one.     *)

TrigPairs ==
  { <<0, UNIT>>, <<UNIT, 0>>, <<0, -UNIT>>, <<-UNIT, 0>>,
    <<(3 * UNIT) \div 5, (4 * UNIT) \div 5>>,
    <<-((4 * UNIT) \div 5), (3 * UNIT) \div 5>> }

NoRotation == [sx |-> 0, cx |-> UNIT, sy |-> 0, cy |-> UNIT, sz |-> 0, cz |-> UNIT]

RenderInit ==
  /\ pc = "transform"
  /\ InCall
  /\ frame = 0
  /\ \E x \in TrigPairs, y \in TrigPairs, z \in TrigPairs :
       ang = [sx |-> x[1], cx |-> x[2], sy |-> y[1], cy |-> y[2],
              sz |-> z[1], cz |-> z[2]]
  /\ NoLocals

RenderSpec == RenderInit /\ [][Render]_vars

---------------------------------------------------------------------------
(* The rasterizer on arbitrary projected positions: the drawing loop is at  *)
(* its last edge, (3, 7), on a blank canvas, and the two endpoints are any  *)
(* points of the coordinate windows: half-cell steps around the origin      *)
(* corner of the grid for the first, around either corner for the second    *)
(* (so negative, tied and too large coordinates all occur).  The vertex     *)
(* loop then marks the same positions.                                      *)

NearWindow == {(k * UNIT) \div 2 : k \in -Reach..Reach}
FarWindow(n) == {n * UNIT + (k * UNIT) \div 2 : k \in -2..2}

RasterInit ==
  /\ pc = "edges"
  /\ InCall
  /\ frame = 0 /\ ang = NoAngles
  /\ verts_3d = <<>>
  /\ \E p0 \in NearWindow \X NearWindow,
        p1 \in (NearWindow \X NearWindow) \cup (FarWindow(COLS) \X FarWindow(ROWS)) :
       verts_2d = [k \in 1..Len(_VERTS) |-> IF k = _EDGES[Len(_EDGES)][2] + 1 THEN p1 ELSE p0]
  /\ visible_edges = {_EDGES[Len(_EDGES)]}
  /\ canvas = BlankCanvas
  /\ ei = Len(_EDGES)
  /\ drawn = {}
  /\ i = 0 /\ prev_c = 0 /\ prev_r = 0 /\ vi = 0

Raster == EdgeDraw \/ LineSample \/ VertexMark \/ RenderReturn

RasterSpec == RasterInit /\ [][Raster]_vars

---------------------------------------------------------------------------
(* Properties *)

\* The characters the renderer writes into a canvas
Cells == {" ", "-", "|", "/", "\\", "+", "o"}

\* Control is in _render_frame, after the canvas is made
Rendering == pc \in {"edges", "line", "vertices", "join"}

\* 0 <= r < ROWS and 0 <= c < COLS, spelled out
Inside(r, c) == r \in 0..(ROWS - 1) /\ c \in 0..(COLS - 1)

\* Canvas cv2 is canvas cv1 but for, at most, the cell in row r, column c
SameExcept(cv1, cv2, r, c) ==
  /\ Len(cv2) = Len(cv1)
  /\ \A rr \in 1..Len(cv1) :
       /\ Len(cv2[rr]) = Len(cv1[rr])
       /\ \A cc \in 1..Len(cv1[rr]) :
            (rr # r + 1 \/ cc # c + 1) => cv2[rr][cc] = cv1[rr][cc]

\* What the steps of _render_frame return is what CallRender takes in one step.
StepsAgree == pc = "returned" => text = _render_frame(frame)

\* C1: at every point of rendering a frame of main's run the canvas is ROWS
\* rows of COLS single characters each, and the text returned is those rows
\* in order, each followed by a newline except the last.
C1_CanvasShape ==
  /\ [](Rendering =>
          /\ DOMAIN canvas = 1..ROWS
          /\ \A r \in 1..ROWS :
               /\ DOMAIN canvas[r] = 1..COLS
               /\ \A c \in 1..COLS : canvas[r][c] \in Cells)
  /\ [][pc = "join" =>
          /\ Len(text') = ROWS * COLS + (ROWS - 1)
          /\ \A k \in 1..Len(text') :
               text'[k] = IF k % (COLS + 1) = 0 THEN "\n"
                          ELSE canvas[(k - 1) \div (COLS + 1) + 1][k % (COLS + 1)]]_vars

\* The last frame's canvas with edges drawn and the vertex loop under way
C1_Witness ==
  /\ pc = "vertices" /\ frame = NUM_FRAMES - 1 /\ vi > 1
  /\ \E r \in 1..ROWS, c \in 1..COLS : canvas[r][c] = "o"
  /\ \E r \in 1..ROWS, c \in 1..COLS : canvas[r][c] \in {"-", "|", "/", "\\"}

\* C2: a step of the sampling loop, of the "+" case or of the vertex loop
\* changes at most the cell it computed, and only if that cell is inside the
\* grid; a point outside changes nothing, raises nothing, and the loop goes
\* on to its next iteration.
C2_OutsideDropped ==
  [][/\ pc = "line" =>
          LET ln == EdgeLine(verts_2d, _EDGES[ei])
              c == SampleC(ln, i)
              r == SampleR(ln, i)
          IN  /\ pc' # "raised"
              /\ IF Inside(r, c) THEN SameExcept(canvas, canvas', r, c)
                 ELSE canvas' = canvas
              /\ i < Steps(ln) => pc' = "line" /\ i' = i + 1
     /\ pc = "edges" /\ pc' # "line" =>
          LET ln == EdgeLine(verts_2d, _EDGES[ei])
          IN  /\ pc' # "raised"
              /\ IF Inside(ir0(ln), ic0(ln))
                 THEN SameExcept(canvas, canvas', ir0(ln), ic0(ln))
                 ELSE canvas' = canvas
     /\ pc = "vertices" =>
          LET c == round(verts_2d[vi][1], UNIT)
              r == round(verts_2d[vi][2], UNIT)
          IN  /\ pc' # "raised"
              /\ IF Inside(r, c)
                 THEN SameExcept(canvas, canvas', r, c) /\ canvas'[r + 1][c + 1] = "o"
                 ELSE canvas' = canvas
              /\ vi < Len(verts_2d) => pc' = "vertices" /\ vi' = vi + 1
    ]_vars

\* Two samples with negative coordinates were dropped, the canvas is still
\* blank, and the loop is at its third sample.
C2_Witness ==
  /\ pc = "line" /\ i = 2
  /\ prev_r = -1 /\ prev_c = -1
  /\ canvas = BlankCanvas


\* The faces _face_visible accepts and the edges the filter lets through
VisibleFaces == {k \in 1..Len(_FACES) : _face_visible(verts_3d, _FACES[k])}
SelectedEdges == {k \in 1..Len(_EDGES) : EdgeSelected(_EDGES[k], visible_edges)}

\* C3 as claimed: with no rotation 3 faces are visible and 9 edges selected.
C3_Original ==
  (Rendering /\ ang = NoRotation) =>
    Cardinality(VisibleFaces) = 3 /\ Cardinality(SelectedEdges) = 9

\* C3: with no rotation exactly one face, the front face (4, 5, 6, 7), is
\* visible and exactly its 4 edges are selected and drawn; the back face and
\* the four edge-on side faces are culled and the other 8 edges are not drawn.
C3_NoRotation ==
  (Rendering /\ ang = NoRotation) =>
    /\ VisibleFaces = {2}
    /\ NormalZ(verts_3d, _FACES[1]) < 0
    /\ \A k \in 3..Len(_FACES) : NormalZ(verts_3d, _FACES[k]) = 0
    /\ SelectedEdges = {5, 6, 7, 8}
    /\ Cardinality(SelectedEdges) = 4
    /\ pc \in {"vertices", "join"} => drawn = {5, 6, 7, 8}

\* The unrotated cube with all its edges handled
C3_Witness ==
  /\ pc = "join" /\ ang = NoRotation
  /\ drawn # {}
  /\ canvas # BlankCanvas

\* An edge as an unordered pair; the 4 sides of a face
Pair(e) == {e[1], e[2]}
Boundary(face) == {{face[j], face[(j % Len(face)) + 1]} : j \in 1..Len(face)}

\* The edge is a side of a face whose normal has a positive Z component.
OnFrontFace(e) ==
  \E k \in 1..Len(_FACES) :
    NormalZ(verts_3d, _FACES[k]) > 0 /\ Pair(e) \in Boundary(_FACES[k])

\* C4: for any rotation, the edges _draw_line has been called for are, among
\* the edges the drawing loop has reached, exactly those that are a side of
\* a face with normal Z > 0.
C4_DrawnIffOnFrontFace ==
  /\ pc = "edges" => drawn = {k \in 1..(ei - 1) : OnFrontFace(_EDGES[k])}
  /\ pc = "line" => drawn = {k \in 1..ei : OnFrontFace(_EDGES[k])}
  /\ pc \in {"vertices", "join"} =>
       drawn = {k \in 1..Len(_EDGES) : OnFrontFace(_EDGES[k])}

\* A rotation with an edge-on face, an edge drawn though one of its two
\* faces is hidden, and an edge not drawn
C4_Witness ==
  /\ pc = "join"
  /\ \E k \in 1..Len(_FACES) : NormalZ(verts_3d, _FACES[k]) = 0
  /\ \E k \in drawn, a \in 1..Len(_FACES), b \in 1..Len(_FACES) :
       /\ Pair(_EDGES[k]) \in Boundary(_FACES[a]) \cap Boundary(_FACES[b])
       /\ NormalZ(verts_3d, _FACES[a]) > 0
       /\ NormalZ(verts_3d, _FACES[b]) <= 0
  /\ drawn # 1..Len(_EDGES)
  /\ Cardinality(drawn) > 4

\* C9: every edge of _EDGES is, as an unordered pair, in exactly two sets of
\* _FACE_EDGES, and each set holds exactly the 4 sides of its face, so that
\* every pair the culling loop collects is an edge of the cube.
C9_FaceEdgeTables ==
  /\ \A p \in visible_edges : \E k \in 1..Len(_EDGES) : Pair(p) = Pair(_EDGES[k])
  /\ Len(_VERTS) = 8 /\ Len(_EDGES) = 12 /\ Len(_FACES) = 6
  /\ Len(_FACE_EDGES) = Len(_FACES)
  /\ \A k \in 1..Len(_EDGES) :
       Cardinality({fi \in 1..Len(_FACE_EDGES) :
                      \E p \in _FACE_EDGES[fi] : Pair(p) = Pair(_EDGES[k])}) = 2
  /\ \A fi \in 1..Len(_FACE_EDGES) :
       /\ Cardinality(_FACE_EDGES[fi]) = 4
       /\ {Pair(p) : p \in _FACE_EDGES[fi]} = Boundary(_FACES[fi])
       /\ \A p \in _FACE_EDGES[fi] : \E k \in 1..Len(_EDGES) : Pair(p) = Pair(_EDGES[k])

\* The culling loop has taken the edges of two faces from the table.
C9_Witness ==
  /\ pc = "edges"
  /\ \E a \in 1..Len(_FACES), b \in 1..Len(_FACES) :
       a # b /\ VisibleFaces = {a, b}
       /\ visible_edges = _FACE_EDGES[a] \cup _FACE_EDGES[b]
       /\ Cardinality(visible_edges) = 7


\* _draw_line has returned from the call for the last edge and the vertex
\* loop has marked nothing yet.
LineReturned == pc = "vertices" /\ vi = 1 /\ drawn = {Len(_EDGES)}

LastLine == EdgeLine(verts_2d, _EDGES[Len(_EDGES)])

\* The characters of the cells that are not blank
Written(cv) == {cv[r][c] : r \in 1..ROWS, c \in 1..COLS} \ {" "}

\* C5 as claimed: drawn on a blank canvas, a horizontal segment (r0 = r1,
\* rounded columns differ) leaves only "-" and a vertical segment (c0 = c1,
\* rounded rows differ) leaves only "|".
C5_AxisGlyphs ==
  LineReturned =>
    /\ (LastLine.r0 = LastLine.r1 /\ ic0(LastLine) # ic1(LastLine)) =>
         Written(canvas) \subseteq {"-"}
    /\ (LastLine.c0 = LastLine.c1 /\ ir0(LastLine) # ir1(LastLine)) =>
         Written(canvas) \subseteq {"|"}

\* C10 as claimed: all cells written by one call with steps >= 1 hold the
\* same character.
C10_Original ==
  (LineReturned /\ Steps(LastLine) >= 1) => Cardinality(Written(canvas)) <= 1

\* C10: the cells written by one call with steps >= 1 hold the glyph of step
\* 0 (from rounded start to rounded end), "-" or "|", and nothing else: never
\* both diagonals; when the rounded row delta is 0 they all hold "-".
C10_StepGlyphs ==
  (LineReturned /\ Steps(LastLine) >= 1) =>
    LET dc == ic1(LastLine) - ic0(LastLine)
        dr == ir1(LastLine) - ir0(LastLine)
    IN  /\ Written(canvas) \subseteq {Glyph(dc, dr), "-", "|"}
        /\ ~({"/", "\\"} \subseteq Written(canvas))
        /\ dr = 0 => Written(canvas) \subseteq {"-"}

\* One call has left a diagonal glyph and both axis glyphs.
C10_Witness ==
  /\ LineReturned /\ Steps(LastLine) >= 3
  /\ Written(canvas) = {"\\", "-", "|"}

\* A cell of the canvas holds a vertex marker.
HasMarker(cv) == \E r \in 1..Len(cv), c \in 1..COLS : cv[r][c] = "o"

\* C6: in the final canvas of every frame the cell of each vertex that rounds
\* into the grid holds "o", and once a marker is on the canvas every cell
\* that changes becomes "o".
C6_MarkersLast ==
  /\ [](pc = "join" =>
          \A k \in 1..Len(verts_2d) :
            LET c == round(verts_2d[k][1], UNIT)
                r == round(verts_2d[k][2], UNIT)
            IN  Inside(r, c) => canvas[r + 1][c + 1] = "o")
  /\ [][(Rendering /\ pc' \in {"edges", "line", "vertices", "join"}
          /\ HasMarker(canvas)) =>
          \A r \in 1..ROWS, c \in 1..COLS :
            canvas'[r][c] # canvas[r][c] => canvas'[r][c] = "o"]_vars

\* A final canvas with 8 markers, one of them of a vertex no drawn edge ends at
C6_Witness ==
  /\ pc = "join"
  /\ \E k \in 0..(Len(verts_2d) - 1) :
       /\ \A e \in drawn : k \notin Pair(_EDGES[e])
       /\ canvas[round(verts_2d[k + 1][2], UNIT) + 1][round(verts_2d[k + 1][1], UNIT) + 1] = "o"
  /\ Cardinality({<<r, c>> \in (1..ROWS) \X (1..COLS) : canvas[r][c] = "o"}) = 8
  /\ Cardinality(drawn) = 9

\* The text of every frame
AllFrames == [n \in 0..(NUM_FRAMES - 1) |-> _render_frame(n)]

\* C7: the first operation is the mkdir; the writes that follow are of files
\* 1, 2, ... in this order, each once; a written file N holds the text of
\* frame N - 1; a finished run has written exactly files 1 .. NUM_FRAMES and
\* then printed.
C7_FilesInOrder ==
  /\ \A j \in 1..Len(oplog) :
       oplog[j].op \in {"write", "write failed"} =>
         /\ oplog[1] = Op("mkdir", 0)
         /\ oplog[j].n = j - 1
         /\ oplog[j].n \in 1..NUM_FRAMES
  /\ \A j \in 1..Len(oplog) :
       oplog[j].op = "write" => files[j - 1] = File(AllFrames[j - 2])
  /\ pc = "done" =>
       /\ Len(oplog) = NUM_FRAMES + 2
       /\ \A n \in 1..NUM_FRAMES : oplog[n + 1] = Op("write", n)
       /\ oplog[NUM_FRAMES + 2].op = "print"
       /\ \A n \in 1..NUM_FRAMES : files[n] = File(AllFrames[n - 1])

\* A finished run: the first and the last file hold their (different) frames
C7_Witness ==
  /\ pc = "done"
  /\ files[1] = File(AllFrames[0])
  /\ files[NUM_FRAMES] = File(AllFrames[NUM_FRAMES - 1])
  /\ files[1] # files[NUM_FRAMES]

IsFailure(o) == o.op \in {"mkdir failed", "write failed"}

\* C8: a failed operation is the last operation of the run and leaves main
\* with the exception raised; the summary is printed only with all files
\* written; after a failed write of file k, files 1 .. k-1 hold their frames
\* and no file above k has been touched.
C8_FailureAborts ==
  /\ \A j \in 1..Len(oplog) :
       IsFailure(oplog[j]) => j = Len(oplog) /\ pc = "raised"
  /\ pc = "raised" => Len(oplog) > 0 /\ IsFailure(oplog[Len(oplog)])
  /\ \A j \in 1..Len(oplog) :
       oplog[j].op = "print" =>
         /\ pc = "done"
         /\ \A n \in 1..NUM_FRAMES : files[n] = File(AllFrames[n - 1])
  /\ \A j \in 1..Len(oplog) :
       oplog[j].op = "write failed" =>
         /\ \A n \in 1..(oplog[j].n - 1) : files[n] = File(AllFrames[n - 1])
         /\ \A n \in (oplog[j].n + 1)..NUM_FRAMES : files[n] \in {NoFile, StaleFile}
         /\ \A m \in 1..Len(oplog) : oplog[m].op = "write" => oplog[m].n < oplog[j].n
  /\ \A j \in 1..Len(oplog) :
       oplog[j].op = "mkdir failed" =>
         /\ Len(oplog) = 1
         /\ \A n \in 1..NUM_FRAMES : files[n] = NoFile

\* The write of file 3 has failed, leaving it truncated, after files 1 and 2.
C8_Witness ==
  /\ pc = "raised"
  /\ oplog[Len(oplog)] = Op("write failed", 3)
  /\ files[2] = File(AllFrames[1])
  /\ files[3] = File(<<>>)
  /\ files[4] = StaleFile

====
